---- MODULE Spec2Model ----
(***************************************************************************)
(* Happy Thoughts API (src/server.js, src/models/User.js): the document    *)
(* store (users, thoughts), the requests in flight between two awaits of   *)
(* their handlers, and the response of the step taken last.  Every await   *)
(* on a store operation is one atomic step; the synchronous code between   *)
(* two awaits belongs to the step of the await that precedes it.           *)
(***************************************************************************)
EXTENDS Integers, Sequences, FiniteSets, Bags, TLC

\* ---------------------------------------------------------------- bounds
MaxUsers == 2
MaxThoughts == 2
MaxTokens == 4
MaxHearts == 2
MaxInFlight == 2
MaxListed == 3

\* ------------------------------------------------------- program constants
UsernameMinLength == 3
UsernameMaxLength == 20
PasswordMinLength == 8
DefaultHearts == 0

\* ------------------------------------------------------------- the values
\* Strings are sequences of characters; <<>> is undefined / absent.
Undefined == <<>>

Usernames == { <<"a","n","a">>, <<"b","o","b">>, <<"x","y">> }
Emails == { <<"a">>, <<"A">>, <<"b">> }
Passwords == { <<"p","a","s","s","w","o","r","d">>, <<"s","h","o","r","t">> }

\* The message <<"o","v","e","r","l","o","n","g">> of a thought stands for a
\* text beyond the length bound of the Thought schema.

\* String.prototype.toLowerCase on the alphabet of the model.
LowerChar(c) ==
    CASE c = "A" -> "a"
      [] c = "B" -> "b"
      [] c = "C" -> "c"
      [] OTHER -> c

toLowerCase(s) == [i \in 1..Len(s) |-> LowerChar(s[i])]

\* bcrypt.hash / bcrypt.compare: the hash is one-way and never equals its
\* input; compare accepts exactly the plaintext that was hashed.
bcryptHash(pw) == <<"$","2","b","$">> \o pw

bcryptCompare(pw, hash) == hash = bcryptHash(pw)

\* ------------------------------------------------------------------ state
VARIABLES
    users,          \* User collection: _id -> document
    thoughts,       \* Thought collection: _id -> document
    reqs,           \* bag of requests waiting on a store operation
    nextUserId,     \* the next ObjectId of a user
    nextThoughtId,  \* the next ObjectId of a thought
    nextToken,      \* the next value of crypto.randomUUID()
    last,           \* the step taken last and the response it sent
    listResp,       \* the last response of GET /thoughts
    issuedTo,       \* history: token -> the user it was issued to
    likes,          \* history: thought -> number of successful likes
    createdBy,      \* history: thought -> user reference at creation
    plain,          \* history: user -> the password given at registration
    deletedOK,      \* history: users whose deletion was answered 200
    delReports      \* history: thought -> successful DELETE responses

vars == << users, thoughts, reqs, nextUserId, nextThoughtId, nextToken, last,
           listResp, issuedTo, likes, createdBy, plain, deletedOK, delReports >>

store == << users, thoughts >>
ids == << nextUserId, nextThoughtId, nextToken >>
history == << issuedTo, likes, createdBy, plain, deletedOK, delReports >>

\* The step taken last.  status is the status of the response it sent, 0 when
\* it sent none (the request is still in flight); hdr is the Authorization
\* header of an authenticating step, email the email of a POST /users body,
\* user the _id of req.user (of the user logged in or registered), id the id
\* in the path, doc the thought in the response body and token its
\* accessToken.
Event(op, step, status, hdr, user, id, doc, token) ==
    [ op |-> op, step |-> step, status |-> status, hdr |-> hdr,
      email |-> <<>>, user |-> user, id |-> id, doc |-> doc, token |-> token ]

RegisterEvent(step, status, email, user, token) ==
    [ Event("register", step, status, <<>>, user, 0, <<>>, token)
        EXCEPT !.email = email ]

NoEvent == Event("none", "none", 0, Undefined, 0, 0, <<>>, 0)

\* A request in flight: the handler's local variables at its await.
Request(kind, pc, user, id, a, b, c) ==
    [ kind |-> kind, pc |-> pc, user |-> user, id |-> id,
      a |-> a, b |-> b, c |-> c ]

InFlight == BagCardinality(reqs)

Pending(kinds) ==
    BagCardinality([r \in {x \in DOMAIN reqs : x.kind \in kinds} |-> reqs[r]])

Add(r) == reqs (+) SetToBag({r})
Remove(r) == reqs (-) SetToBag({r})
Replace(r, q) == (reqs (-) SetToBag({r})) (+) SetToBag({q})

Extend(f, k, v) == [x \in DOMAIN f \cup {k} |-> IF x = k THEN v ELSE f[x]]
Without(f, ks) == [x \in DOMAIN f \ ks |-> f[x]]

\* ------------------------------------------------------------- User model
\* The document a query returns: <<>> for null, <<doc>> otherwise.  Of
\* several matches the store returns the first one in natural order.
First(matching) ==
    IF matching = {} THEN <<>>
    ELSE <<users[CHOOSE u \in matching : \A v \in matching : u <= v]>>

\* User.findOne({ email }): the query value is cast by the schema, whose
\* lowercase setter applies to it.
findUserByEmail(email) ==
    First({u \in DOMAIN users : users[u].email = toLowerCase(email)})

\* User.findOne({ accessToken: token })
findUserByToken(token) ==
    First({u \in DOMAIN users : users[u].accessToken = token})

\* new User({ username, email, password }): setters and defaults.
newUser(username, email, password) ==
    [ _id |-> nextUserId, username |-> username, email |-> toLowerCase(email),
      password |-> password, accessToken |-> nextToken ]

\* The validators of userSchema.
userValidates(doc) ==
    /\ doc.username # Undefined
    /\ doc.email # Undefined
    /\ doc.password # Undefined
    /\ Len(doc.username) >= UsernameMinLength
    /\ Len(doc.username) <= UsernameMaxLength
    /\ Len(doc.password) >= PasswordMinLength

\* No unique index is built.
uniqueIndexNone(doc) == TRUE

\* The unique indexes on username and email.
uniqueIndexAccepts(doc) ==
    \A u \in DOMAIN users :
        /\ users[u].username # doc.username
        /\ users[u].email # doc.email

\* The hook without its isModified("password") test.
preSaveAlways(doc, modified) ==
    [doc EXCEPT !.password = bcryptHash(doc.password)]

\* userSchema.pre("save"): modified is the set of modified paths.
preSave(doc, modified) ==
    IF "password" \in modified
    THEN [doc EXCEPT !.password = bcryptHash(doc.password)]
    ELSE doc

AllPaths == {"_id", "username", "email", "password", "accessToken"}

\* The login handler without its user.save().
saveLoadedNothing(stored, loaded, doc) == stored

\* save() of a loaded document writes the paths that differ from what was
\* loaded, and no others.
saveLoaded(stored, loaded, doc) ==
    [f \in DOMAIN stored |-> IF doc[f] # loaded[f] THEN doc[f] ELSE stored[f]]

\* --------------------------------------------------------- authenticateUser
\* The lookup with a misspelt field name: the filter is dropped and findOne
\* returns the first user.
authenticateUserAnyToken(hdr) ==
    IF hdr = Undefined
    THEN [status |-> 401, next |-> FALSE, user |-> <<>>]
    ELSE LET user == First(DOMAIN users)
         IN  IF user = <<>>
             THEN [status |-> 401, next |-> FALSE, user |-> <<>>]
             ELSE [status |-> 0, next |-> TRUE, user |-> user]

\* next is whether next() is called, user is req.user.
authenticateUser(hdr) ==
    IF hdr = Undefined
    THEN [status |-> 401, next |-> FALSE, user |-> <<>>]
    ELSE LET user == findUserByToken(hdr[1])
         IN  IF user = <<>>
             THEN [status |-> 401, next |-> FALSE, user |-> <<>>]
             ELSE [status |-> 0, next |-> TRUE, user |-> user]

\* The Authorization headers a client can send: none, a value no login ever
\* returned (0), or any token issued so far.
Headers == {Undefined} \cup {<<t>> : t \in 0..(nextToken - 1)}

ReqUserId(r) == r.user[1]._id

\* The ids a client can put in a path.
UserIds == 1..MaxUsers
ThoughtIds == 1..MaxThoughts

\* ------------------------------------------------------------- POST /users
RegisterFind(username, email, password) ==
    /\ InFlight < MaxInFlight
    /\ nextUserId + Pending({"register"}) <= MaxUsers
    /\ nextToken + Pending({"register", "login"}) <= MaxTokens
    /\ LET existingUser == findUserByEmail(email)
       IN  IF existingUser # <<>>
           THEN /\ last' = RegisterEvent("find", 400, email, 0, 0)
                /\ UNCHANGED reqs
           ELSE /\ reqs' = Add(Request("register", "save", <<>>, 0,
                                       username, email, password))
                /\ last' = RegisterEvent("find", 0, email, 0, 0)
    /\ UNCHANGED << store, ids, listResp, history >>

RegisterSave(r) ==
    /\ r.kind = "register" /\ r.pc = "save"
    /\ reqs' = Remove(r)
    /\ LET user == newUser(r.a, r.b, r.c)
       IN  IF userValidates(user) /\ uniqueIndexAccepts(user)
           THEN /\ users' = Extend(users, user._id, preSave(user, AllPaths))
                /\ nextUserId' = nextUserId + 1
                /\ nextToken' = nextToken + 1
                /\ issuedTo' = Extend(issuedTo, user.accessToken, user._id)
                /\ plain' = Extend(plain, user._id, r.c)
                /\ last' = RegisterEvent("save", 201, r.b, user._id,
                                         user.accessToken)
           ELSE /\ last' = RegisterEvent("save", 400, r.b, 0, 0)
                /\ UNCHANGED << users, nextUserId, nextToken, issuedTo, plain >>
    /\ UNCHANGED << thoughts, nextThoughtId, listResp, likes, createdBy,
                    deletedOK, delReports >>

\* ---------------------------------------------------------- POST /sessions
LoginFind(email, password) ==
    /\ InFlight < MaxInFlight
    /\ nextToken + Pending({"register", "login"}) <= MaxTokens
    /\ LET user == findUserByEmail(email)
       IN  IF user = <<>>
           THEN /\ last' = Event("login", "find", 401, Undefined, 0, 0, <<>>, 0)
                /\ UNCHANGED reqs
           ELSE IF ~bcryptCompare(password, user[1].password)
           THEN /\ last' = Event("login", "find", 401, Undefined, 0,
                                 user[1]._id, <<>>, 0)
                /\ UNCHANGED reqs
           ELSE /\ reqs' = Add(Request("login", "save", user, user[1]._id,
                                       Undefined, Undefined, Undefined))
                /\ last' = Event("login", "find", 0, Undefined, 0,
                                 user[1]._id, <<>>, 0)
    /\ UNCHANGED << store, ids, listResp, history >>

LoginSave(r) ==
    /\ r.kind = "login" /\ r.pc = "save"
    /\ reqs' = Remove(r)
    /\ LET loaded == r.user[1]
           user == preSave([loaded EXCEPT !.accessToken = nextToken],
                           {"accessToken"})
       IN  IF r.id \in DOMAIN users
           THEN /\ users' = [users EXCEPT ![r.id] = saveLoaded(@, loaded, user)]
                /\ nextToken' = nextToken + 1
                /\ issuedTo' = Extend(issuedTo, user.accessToken, r.id)
                /\ last' = Event("login", "save", 200, Undefined, r.id, r.id,
                                 <<>>, user.accessToken)
           ELSE \* save() of a document that is gone: DocumentNotFoundError
                /\ last' = Event("login", "save", 500, Undefined, 0, r.id, <<>>, 0)
                /\ UNCHANGED << users, nextToken, issuedTo >>
    /\ UNCHANGED << thoughts, nextUserId, nextThoughtId, listResp, likes,
                    createdBy, plain, deletedOK, delReports >>

\* ----------------------------------------------------------- Thought model
\* new Thought({ message, category, user, username }): the schema's setters
\* and defaults (hearts is not taken from the request).
newThought(message, category, user, username) ==
    [ _id |-> nextThoughtId, message |-> message,
      category |-> toLowerCase(category), hearts |-> DefaultHearts,
      user |-> user, username |-> username ]

\* The validators of the Thought schema on a message: required, and within
\* the length bound.
messageValidates(message) ==
    /\ message # Undefined
    /\ message # <<"o","v","e","r","l","o","n","g">>

\* Thought.findById(id)
findThoughtById(id) ==
    IF id \in DOMAIN thoughts THEN <<thoughts[id]>> ELSE <<>>

\* The ownership test with === for !==.
notOwnerInverted(thought, r) ==
    thought.user # 0 /\ thought.user = ReqUserId(r)

\* thought.user && thought.user.toString() !== req.user._id.toString()
notOwner(thought, r) ==
    thought.user # 0 /\ thought.user # ReqUserId(r)

\* The like as { hearts: 1 }, a $set, for { $inc: { hearts: 1 } }.
incHeartsSet(thought) == [thought EXCEPT !.hearts = 1]

\* Thought.findByIdAndUpdate(id, { $inc: { hearts: 1 } }, { new: true })
incHearts(thought) == [thought EXCEPT !.hearts = @ + 1]

\* The update as a replacement of the document (overwrite): the fields the
\* body does not name fall back to their defaults.
setFieldsOverwrite(thought, message, category) ==
    [thought EXCEPT !.message = message, !.category = toLowerCase(category),
                    !.hearts = DefaultHearts, !.user = 0, !.username = Undefined]

\* Thought.findByIdAndUpdate(id, { message, category }): undefined values
\* are dropped from the update, the others are $set through the setters.
setFields(thought, message, category) ==
    [thought EXCEPT
        !.message = IF message = Undefined THEN @ ELSE message,
        !.category = IF category = Undefined THEN @ ELSE toLowerCase(category)]

\* runValidators: the validators of the paths the update sets.
updateValidates(message) ==
    message = Undefined \/ messageValidates(message)

\* Thought.deleteMany({ user })
deleteManyByUser(user) ==
    Without(thoughts, {t \in DOMAIN thoughts : thoughts[t].user = user})

\* ---------------------------------------------------------- POST /thoughts
PostThoughtAuth(hdr, message, category) ==
    /\ InFlight < MaxInFlight
    /\ nextThoughtId + Pending({"postThought"}) <= MaxThoughts
    /\ LET a == authenticateUser(hdr)
       IN  /\ reqs' = IF a.next
                      THEN Add(Request("postThought", "save", a.user, 0,
                                       message, category, Undefined))
                      ELSE reqs
           /\ last' = Event("postThought", "auth", a.status, hdr, 0, 0, <<>>, 0)
    /\ UNCHANGED << store, ids, listResp, history >>

PostThoughtSave(r) ==
    /\ r.kind = "postThought" /\ r.pc = "save"
    /\ reqs' = Remove(r)
    /\ LET thought == newThought(r.a, r.b, ReqUserId(r), r.user[1].username)
       IN  IF messageValidates(thought.message)
           THEN /\ thoughts' = Extend(thoughts, thought._id, thought)
                /\ nextThoughtId' = nextThoughtId + 1
                /\ likes' = Extend(likes, thought._id, 0)
                /\ createdBy' = Extend(createdBy, thought._id, thought.user)
                /\ delReports' = Extend(delReports, thought._id, 0)
                /\ last' = Event("postThought", "save", 201, Undefined,
                                 ReqUserId(r), thought._id, <<thought>>, 0)
           ELSE /\ last' = Event("postThought", "save", 400, Undefined,
                                 ReqUserId(r), 0, <<>>, 0)
                /\ UNCHANGED << thoughts, nextThoughtId, likes, createdBy,
                                delReports >>
    /\ UNCHANGED << users, nextUserId, nextToken, listResp, issuedTo, plain,
                    deletedOK >>

\* ------------------------------------------------- POST /thoughts/:id/like
Like(id) ==
    /\ id \in DOMAIN thoughts => thoughts[id].hearts < MaxHearts
    /\ IF id \in DOMAIN thoughts
       THEN /\ thoughts' = [thoughts EXCEPT ![id] = incHearts(@)]
            /\ likes' = [likes EXCEPT ![id] = @ + 1]
            /\ last' = Event("like", "update", 200, Undefined, 0, id,
                             <<thoughts'[id]>>, 0)
       ELSE /\ last' = Event("like", "update", 404, Undefined, 0, id, <<>>, 0)
            /\ UNCHANGED << thoughts, likes >>
    /\ UNCHANGED << users, reqs, ids, listResp, issuedTo, createdBy, plain,
                    deletedOK, delReports >>

\* ------------------------------------------------------ DELETE /thoughts/:id
DeleteThoughtAuth(hdr, id) ==
    /\ InFlight < MaxInFlight
    /\ LET a == authenticateUser(hdr)
       IN  /\ reqs' = IF a.next
                      THEN Add(Request("deleteThought", "find", a.user, id,
                                       Undefined, Undefined, Undefined))
                      ELSE reqs
           /\ last' = Event("deleteThought", "auth", a.status, hdr, 0, id, <<>>, 0)
    /\ UNCHANGED << store, ids, listResp, history >>

DeleteThoughtFind(r) ==
    /\ r.kind = "deleteThought" /\ r.pc = "find"
    /\ LET thought == findThoughtById(r.id)
       IN  IF thought = <<>>
           THEN /\ reqs' = Remove(r)
                /\ last' = Event("deleteThought", "find", 404, Undefined,
                                 ReqUserId(r), r.id, <<>>, 0)
           ELSE IF notOwner(thought[1], r)
           THEN /\ reqs' = Remove(r)
                /\ last' = Event("deleteThought", "find", 403, Undefined,
                                 ReqUserId(r), r.id, <<>>, 0)
           ELSE /\ reqs' = Replace(r, [r EXCEPT !.pc = "delete"])
                /\ last' = Event("deleteThought", "find", 0, Undefined,
                                 ReqUserId(r), r.id, <<>>, 0)
    /\ UNCHANGED << store, ids, listResp, history >>

\* Thought.findByIdAndDelete(id), whose result the handler does not read: it
\* answers with the document it fetched.
DeleteThoughtDelete(r) ==
    /\ r.kind = "deleteThought" /\ r.pc = "delete"
    /\ reqs' = Remove(r)
    /\ thoughts' = Without(thoughts, {r.id})
    /\ delReports' = [delReports EXCEPT ![r.id] = @ + 1]
    /\ last' = Event("deleteThought", "delete", 200, Undefined, ReqUserId(r),
                     r.id, <<>>, 0)
    /\ UNCHANGED << users, ids, listResp, issuedTo, likes, createdBy, plain,
                    deletedOK >>

\* ------------------------------------------------------- PATCH /thoughts/:id
PatchThoughtAuth(hdr, id, message, category) ==
    /\ InFlight < MaxInFlight
    /\ LET a == authenticateUser(hdr)
       IN  /\ reqs' = IF a.next
                      THEN Add(Request("patchThought", "find", a.user, id,
                                       message, category, Undefined))
                      ELSE reqs
           /\ last' = Event("patchThought", "auth", a.status, hdr, 0, id, <<>>, 0)
    /\ UNCHANGED << store, ids, listResp, history >>

PatchThoughtFind(r) ==
    /\ r.kind = "patchThought" /\ r.pc = "find"
    /\ LET thought == findThoughtById(r.id)
       IN  IF thought = <<>>
           THEN /\ reqs' = Remove(r)
                /\ last' = Event("patchThought", "find", 404, Undefined,
                                 ReqUserId(r), r.id, <<>>, 0)
           ELSE IF notOwner(thought[1], r)
           THEN /\ reqs' = Remove(r)
                /\ last' = Event("patchThought", "find", 403, Undefined,
                                 ReqUserId(r), r.id, <<>>, 0)
           ELSE /\ reqs' = Replace(r, [r EXCEPT !.pc = "update"])
                /\ last' = Event("patchThought", "find", 0, Undefined,
                                 ReqUserId(r), r.id, <<>>, 0)
    /\ UNCHANGED << store, ids, listResp, history >>

\* res.json(updatedThought): the handler sends whatever the update returned,
\* null when no document has the id.
PatchThoughtUpdate(r) ==
    /\ r.kind = "patchThought" /\ r.pc = "update"
    /\ reqs' = Remove(r)
    /\ IF ~updateValidates(r.a)
       THEN /\ last' = Event("patchThought", "update", 400, Undefined,
                             ReqUserId(r), r.id, <<>>, 0)
            /\ UNCHANGED thoughts
       ELSE IF r.id \in DOMAIN thoughts
       THEN /\ thoughts' = [thoughts EXCEPT ![r.id] = setFields(@, r.a, r.b)]
            /\ last' = Event("patchThought", "update", 200, Undefined,
                             ReqUserId(r), r.id, <<thoughts'[r.id]>>, 0)
       ELSE /\ last' = Event("patchThought", "update", 200, Undefined,
                             ReqUserId(r), r.id, <<>>, 0)
            /\ UNCHANGED thoughts
    /\ UNCHANGED << users, ids, listResp, history >>

\* ----------------------------------------------------------- DELETE /users/me
DeleteMeAuth(hdr) ==
    /\ InFlight < MaxInFlight
    /\ LET a == authenticateUser(hdr)
       IN  /\ reqs' = IF a.next
                      THEN Add(Request("deleteMe", "deleteMany", a.user, 0,
                                       Undefined, Undefined, Undefined))
                      ELSE reqs
           /\ last' = Event("deleteMe", "auth", a.status, hdr, 0, 0, <<>>, 0)
    /\ UNCHANGED << store, ids, listResp, history >>

DeleteMeThoughts(r) ==
    /\ r.kind = "deleteMe" /\ r.pc = "deleteMany"
    /\ thoughts' = deleteManyByUser(ReqUserId(r))
    /\ reqs' = Replace(r, [r EXCEPT !.pc = "deleteUser"])
    /\ last' = Event("deleteMe", "deleteMany", 0, Undefined, ReqUserId(r), 0,
                     <<>>, 0)
    /\ UNCHANGED << users, ids, listResp, history >>

\* User.findByIdAndDelete(req.user._id), whose result the handler does not
\* read.
DeleteMeUser(r) ==
    /\ r.kind = "deleteMe" /\ r.pc = "deleteUser"
    /\ reqs' = Remove(r)
    /\ users' = Without(users, {ReqUserId(r)})
    /\ deletedOK' = deletedOK \cup {ReqUserId(r)}
    /\ last' = Event("deleteMe", "deleteUser", 200, Undefined, ReqUserId(r),
                     ReqUserId(r), <<>>, 0)
    /\ UNCHANGED << thoughts, ids, listResp, issuedTo, likes, createdBy, plain,
                    delReports >>

\* ---------------------------------------------------------- DELETE /users/:id
DeleteUserThoughts(id) ==
    /\ InFlight < MaxInFlight
    /\ thoughts' = deleteManyByUser(id)
    /\ reqs' = Add(Request("deleteUser", "deleteUser", <<>>, id,
                           Undefined, Undefined, Undefined))
    /\ last' = Event("deleteUser", "deleteMany", 0, Undefined, 0, id, <<>>, 0)
    /\ UNCHANGED << users, ids, listResp, history >>

DeleteUserUser(r) ==
    /\ r.kind = "deleteUser" /\ r.pc = "deleteUser"
    /\ reqs' = Remove(r)
    /\ IF r.id \in DOMAIN users
       THEN /\ users' = Without(users, {r.id})
            /\ deletedOK' = deletedOK \cup {r.id}
            /\ last' = Event("deleteUser", "deleteUser", 200, Undefined, 0,
                             r.id, <<>>, 0)
       ELSE /\ last' = Event("deleteUser", "deleteUser", 404, Undefined, 0,
                             r.id, <<>>, 0)
            /\ UNCHANGED << users, deletedOK >>
    /\ UNCHANGED << thoughts, ids, listResp, issuedTo, likes, createdBy, plain,
                    delReports >>

Init ==
    /\ users = <<>>
    /\ thoughts = <<>>
    /\ reqs = EmptyBag
    /\ nextUserId = 1
    /\ nextThoughtId = 1
    /\ nextToken = 1
    /\ last = NoEvent
    /\ listResp = <<>>
    /\ issuedTo = <<>>
    /\ likes = <<>>
    /\ createdBy = <<>>
    /\ plain = <<>>
    /\ deletedOK = {}
    /\ delReports = <<>>

\* Two users are registered (POST /users twice), nothing else has happened.
Registered ==
    /\ users = (1 :> [ _id |-> 1, username |-> <<"a","n","a">>, email |-> <<"a">>,
                       password |-> bcryptHash(<<"p","a","s","s","w","o","r","d">>),
                       accessToken |-> 1 ]
             @@ 2 :> [ _id |-> 2, username |-> <<"b","o","b">>, email |-> <<"b">>,
                       password |-> bcryptHash(<<"p","a","s","s","w","o","r","d">>),
                       accessToken |-> 2 ])
    /\ thoughts = <<>>
    /\ reqs = EmptyBag
    /\ nextUserId = 3
    /\ nextThoughtId = 1
    /\ nextToken = 3
    /\ last = NoEvent
    /\ listResp = <<>>
    /\ issuedTo = (1 :> 1 @@ 2 :> 2)
    /\ likes = <<>>
    /\ createdBy = <<>>
    /\ plain = (1 :> <<"p","a","s","s","w","o","r","d">>
             @@ 2 :> <<"p","a","s","s","w","o","r","d">>)
    /\ deletedOK = {}
    /\ delReports = <<>>

\* Two users are registered, and the store holds a thought that was created
\* before thoughts had owners: POST /thoughts stored { message, category }
\* only.
RegisteredOverLegacy ==
    /\ users = (1 :> [ _id |-> 1, username |-> <<"a","n","a">>, email |-> <<"a">>,
                       password |-> bcryptHash(<<"p","a","s","s","w","o","r","d">>),
                       accessToken |-> 1 ]
             @@ 2 :> [ _id |-> 2, username |-> <<"b","o","b">>, email |-> <<"b">>,
                       password |-> bcryptHash(<<"p","a","s","s","w","o","r","d">>),
                       accessToken |-> 2 ])
    /\ thoughts = (1 :> [ _id |-> 1, message |-> <<"m","1">>, category |-> Undefined,
                          hearts |-> DefaultHearts, user |-> 0,
                          username |-> Undefined ])
    /\ reqs = EmptyBag
    /\ nextUserId = 3
    /\ nextThoughtId = 2
    /\ nextToken = 3
    /\ last = NoEvent
    /\ listResp = <<>>
    /\ issuedTo = (1 :> 1 @@ 2 :> 2)
    /\ likes = (1 :> 0)
    /\ createdBy = (1 :> 0)
    /\ plain = (1 :> <<"p","a","s","s","w","o","r","d">>
             @@ 2 :> <<"p","a","s","s","w","o","r","d">>)
    /\ deletedOK = {}
    /\ delReports = (1 :> 0)

\* ------------------------------------------------- the steps of each endpoint
\* Request bodies { message, category }.
Body(message, category) == [message |-> message, category |-> category]

Hi == Body(<<"m","1">>, Undefined)
Edit == Body(<<"m","2">>, <<"C">>)
Overlong == Body(<<"o","v","e","r","l","o","n","g">>, Undefined)

Register ==
    \/ \E username \in Usernames, email \in Emails, password \in Passwords :
          RegisterFind(username, email, password)
    \/ \E r \in DOMAIN reqs : RegisterSave(r)

Login(emails) ==
    \/ \E email \in emails, password \in Passwords : LoginFind(email, password)
    \/ \E r \in DOMAIN reqs : LoginSave(r)

PostThought(bodies) ==
    \/ \E hdr \in Headers, body \in bodies :
          PostThoughtAuth(hdr, body.message, body.category)
    \/ \E r \in DOMAIN reqs : PostThoughtSave(r)

DeleteThought ==
    \/ \E hdr \in Headers, id \in ThoughtIds : DeleteThoughtAuth(hdr, id)
    \/ \E r \in DOMAIN reqs : DeleteThoughtFind(r)
    \/ \E r \in DOMAIN reqs : DeleteThoughtDelete(r)

PatchThought(bodies) ==
    \/ \E hdr \in Headers, id \in ThoughtIds, body \in bodies :
          PatchThoughtAuth(hdr, id, body.message, body.category)
    \/ \E r \in DOMAIN reqs : PatchThoughtFind(r)
    \/ \E r \in DOMAIN reqs : PatchThoughtUpdate(r)

DeleteMe ==
    \/ \E hdr \in Headers : DeleteMeAuth(hdr)
    \/ \E r \in DOMAIN reqs : DeleteMeThoughts(r)
    \/ \E r \in DOMAIN reqs : DeleteMeUser(r)

DeleteUser ==
    \/ \E id \in UserIds : DeleteUserThoughts(id)
    \/ \E r \in DOMAIN reqs : DeleteUserUser(r)

\* Accounts and sessions: every user endpoint, and POST /thoughts as the
\* protected endpoint.
NextAuth ==
    \/ Register
    \/ Login(Emails)
    \/ DeleteMe
    \/ DeleteUser
    \/ PostThought({Hi})

SpecAuth == Init /\ [][NextAuth]_vars

\* Thoughts and their owners: two registered users work on thoughts and
\* delete accounts.
NextOwner ==
    \/ PostThought({Hi})
    \/ PatchThought({Edit})
    \/ DeleteThought
    \/ DeleteMe
    \/ DeleteUser

SpecOwner == (Registered \/ RegisteredOverLegacy) /\ [][NextOwner]_vars

\* The heart counter: likes against everything else that writes a thought.
NextHearts ==
    \/ PostThought({Hi, Overlong})
    \/ PatchThought({Edit, Overlong})
    \/ \E id \in ThoughtIds : Like(id)
    \/ Login({<<"A">>})

SpecHearts == Registered /\ [][NextHearts]_vars

\* ------------------------------------------------------------ GET /thoughts
\* Thought.find(filter): the ids of the thoughts of a category, all of them
\* when the query names none.
findThoughts(category) ==
    IF category = Undefined THEN DOMAIN thoughts
    ELSE {t \in DOMAIN thoughts : thoughts[t].category = toLowerCase(category)}

\* The value of a field the store sorts by: createdAt grows with the order of
\* creation, a field no document has is null (0) in every document.
SortKey(t, field) ==
    CASE field = "hearts" -> thoughts[t].hearts
      [] field = "createdAt" -> t
      [] OTHER -> 0

\* query.sort({ field: -1 }): the orders of the matching documents that
\* descend by the field; documents with equal keys come in any order.
sortDescending(matching, field) ==
    {ord \in [1..Cardinality(matching) -> matching] :
        /\ \A i, j \in DOMAIN ord : i # j => ord[i] # ord[j]
        /\ \A i, j \in DOMAIN ord : i < j => SortKey(ord[i], field) >= SortKey(ord[j], field)}

\* The field GET /thoughts sorts by.
sortField(sort) ==
    CASE sort = "hearts" -> "heats"
      [] sort = "date" -> "createdAt"
      [] OTHER -> "createdAt"

\* query.skip(skip).limit(limit)
skipLimit(ord, skip, limit) ==
    [i \in 1..(IF Len(ord) - skip < limit
               THEN (IF Len(ord) - skip < 0 THEN 0 ELSE Len(ord) - skip)
               ELSE limit) |-> ord[skip + i]]

\* Math.ceil(a / b) for a >= 0, b >= 1
ceilDiv(a, b) == (a + b - 1) \div b

\* Thought.countDocuments()
countDocuments == Cardinality(DOMAIN thoughts)

ListThoughts(category, sort, page, limit) ==
    /\ \E ord \in sortDescending(findThoughts(category), sortField(sort)) :
          listResp' = << [ category |-> category, sort |-> sort,
                           total |-> countDocuments, page |-> page,
                           limit |-> limit,
                           totalPages |-> ceilDiv(countDocuments, limit),
                           results |-> skipLimit(ord, (page - 1) * limit, limit) ] >>
    /\ last' = Event("list", "find", 200, Undefined, 0, 0, <<>>, 0)
    /\ UNCHANGED << store, reqs, ids, history >>

\* The collections GET /thoughts is run against: up to MaxListed thoughts of
\* the first user, with any hearts and categories.
Listed ==
    /\ \E n \in 0..MaxListed :
          \E category \in [1..n -> {<<"c">>, <<"d">>}], hearts \in [1..n -> 0..MaxHearts] :
              thoughts = [t \in 1..n |->
                            [ _id |-> t, message |-> <<"m","1">>,
                              category |-> category[t], hearts |-> hearts[t],
                              user |-> 1, username |-> <<"a","n","a">> ]]
    /\ users = (1 :> [ _id |-> 1, username |-> <<"a","n","a">>, email |-> <<"a">>,
                       password |-> bcryptHash(<<"p","a","s","s","w","o","r","d">>),
                       accessToken |-> 1 ])
    /\ reqs = EmptyBag
    /\ nextUserId = 2
    /\ nextThoughtId = Cardinality(DOMAIN thoughts) + 1
    /\ nextToken = 2
    /\ last = NoEvent
    /\ listResp = <<>>
    /\ issuedTo = (1 :> 1)
    /\ likes = [t \in DOMAIN thoughts |-> thoughts[t].hearts]
    /\ createdBy = [t \in DOMAIN thoughts |-> 1]
    /\ plain = (1 :> <<"p","a","s","s","w","o","r","d">>)
    /\ deletedOK = {}
    /\ delReports = [t \in DOMAIN thoughts |-> 0]

NextList ==
    \E category \in {Undefined, <<"c">>, <<"D">>}, sort \in {"hearts", "date", "none"},
       page \in 1..2, limit \in 1..2 :
        ListThoughts(category, sort, page, limit)

SpecList == Listed /\ [][NextList]_vars

\* The whole API; the specifications above are its slices.
Next == NextAuth \/ NextOwner \/ NextHearts \/ NextList

Spec == Init /\ [][Next]_vars

\* ------------------------------------------------------------------ claims
\* The tokens issued so far to user u.
TokensOf(u) == {t \in DOMAIN issuedTo : issuedTo[t] = u}

\* The user a request carrying token t authenticates as: {} when rejected.
AuthenticatesAs(t) ==
    LET a == authenticateUser(<<t>>)
    IN  IF a.next THEN {a.user[1]._id} ELSE {}

\* C1: single live token.  The token a successful login has just returned
\* authenticates as the user who logged in; a token authenticates only as the
\* user it was issued to and only while it is the latest token issued to that
\* user, so every token issued earlier is rejected from the login on, and at
\* most one token authenticates as a given user.
C1_SingleLiveToken ==
    /\ (last.op = "login" /\ last.status = 200)
          => AuthenticatesAs(last.token) = {last.user}
    /\ \A t \in 0..(nextToken - 1) :
          AuthenticatesAs(t) # {} =>
              /\ t \in DOMAIN issuedTo
              /\ AuthenticatesAs(t) = {issuedTo[t]}
              /\ \A t2 \in TokensOf(issuedTo[t]) : t2 <= t
    /\ \A u \in UserIds :
          Cardinality({t \in 0..(nextToken - 1) : u \in AuthenticatesAs(t)}) <= 1

\* A second login of the same user has just completed: the tokens of the
\* registration and of the first login are both stale.
C1_Witness ==
    /\ last.op = "login" /\ last.status = 200
    /\ Cardinality(TokensOf(last.user)) = 3
    /\ AuthenticatesAs(last.token) = {last.user}

\* A step of POST /users whose email is the email of a stored user answers
\* 400 and writes no user.
DuplicateEmailRejected ==
    ( /\ last'.op = "register"
      /\ \E u \in DOMAIN users :
            toLowerCase(users[u].email) = toLowerCase(last'.email) )
    => (last'.status = 400 /\ users' = users)

UsersUnique ==
    \A u, v \in DOMAIN users :
        u # v => /\ toLowerCase(users[u].email) # toLowerCase(users[v].email)
                 /\ users[u].username # users[v].username

\* C8: no two stored users share an email (compared case-insensitively) or a
\* username, whatever the interleaving of POST /users requests; a POST /users
\* with the email of a stored user is answered 400, creates no user and leaves
\* the stored users unchanged.
C8_UniqueUsers == []UsersUnique /\ [][DuplicateEmailRejected]_vars

\* A registration that passed its findOne is refused by the save, because a
\* concurrent registration stored the same email (in another case) meanwhile.
C8_Witness ==
    /\ last.op = "register" /\ last.step = "save" /\ last.status = 400
    /\ \E u \in DOMAIN users :
          /\ users[u].email = toLowerCase(last.email)
          /\ users[u].email # last.email

\* A step of POST /sessions writes no thought, adds and removes no user, and
\* changes no field of a user but the accessToken of the user logged in.
LoginFrame ==
    last'.op = "login" =>
        /\ thoughts' = thoughts
        /\ DOMAIN users' = DOMAIN users
        /\ \A u \in DOMAIN users :
              /\ users'[u].password = users[u].password
              /\ users'[u].username = users[u].username
              /\ users'[u].email = users[u].email
              /\ (u # last'.user \/ last'.status # 200) => users'[u] = users[u]

\* The password given at registration still logs every stored user in.
CredentialsKeepWorking ==
    \A u \in DOMAIN users : bcryptCompare(plain[u], users[u].password)

\* C10: a login changes at most the accessToken of the user whose email
\* matches; a failed login changes nothing; the stored hash is not re-hashed,
\* so the same credentials succeed again.
C10_LoginFrame == []CredentialsKeepWorking /\ [][LoginFrame]_vars

\* The same credentials have just logged in a second time, while the other
\* user and a thought are in the store.
C10_Witness ==
    /\ last.op = "login" /\ last.status = 200
    /\ Cardinality(TokensOf(last.user)) = 3
    /\ Cardinality(DOMAIN users) = 2
    /\ thoughts # <<>>

Protected == {"postThought", "patchThought", "deleteThought", "deleteMe"}

\* The users whose stored accessToken equals the header.
Matching(hdr) ==
    IF hdr = Undefined THEN {}
    ELSE {u \in DOMAIN users : users[u].accessToken = hdr[1]}

\* An authenticating step writes nothing; without a header, or with a header
\* that is no user's stored accessToken, it answers 401 and starts no handler;
\* otherwise it starts the handler once, with req.user the matching user.
AuthenticateStep ==
    last'.step = "auth" =>
        /\ last'.op \in Protected
        /\ users' = users /\ thoughts' = thoughts
        /\ IF Matching(last'.hdr) = {}
           THEN last'.status = 401 /\ reqs' = reqs
           ELSE /\ last'.status = 0
                /\ \E u \in Matching(last'.hdr), r \in DOMAIN reqs' :
                      /\ r.kind = last'.op
                      /\ r.user = <<users[u]>>
                      /\ reqs' = Add(r)

\* A step of a protected endpoint that writes the store is a step of a handler
\* that authenticateUser started.
HandlerStep ==
    (last'.op \in Protected /\ (users' # users \/ thoughts' # thoughts)) =>
        \E r \in DOMAIN reqs :
            /\ r.kind = last'.op
            /\ r.user # <<>>
            /\ r.user[1]._id = last'.user
            /\ reqs' = Remove(r) \/ \E q \in DOMAIN reqs' : reqs' = Replace(r, q)

\* Every handler of a protected endpoint in flight has the identity of a user
\* to whom the token it presented was issued.
HandlersAuthenticated ==
    \A r \in DOMAIN reqs :
        r.kind \in Protected =>
            /\ r.user # <<>>
            /\ r.user[1].accessToken \in DOMAIN issuedTo
            /\ issuedTo[r.user[1].accessToken] = r.user[1]._id

\* C6: authenticateUser answers 401 without running the handler when the
\* header is absent or equals no stored accessToken, and otherwise runs the
\* handler exactly once as the user whose stored accessToken equals the header
\* at lookup time; the protected endpoints never write the store for a request
\* that was not authenticated.
C6_Authenticate ==
    /\ []HandlersAuthenticated
    /\ [][AuthenticateStep]_vars
    /\ [][HandlerStep]_vars

\* A request carrying the token of a deleted account has just been answered
\* 401 while a live user and a thought are in the store.
C6_Witness ==
    /\ last.step = "auth" /\ last.status = 401
    /\ last.hdr # Undefined /\ last.hdr[1] \in DOMAIN issuedTo
    /\ users # <<>> /\ thoughts # <<>>

\* The fetch of PATCH or DELETE /thoughts/:id by a user who is not the owner
\* of a stored thought answers 403.
NonOwnerForbidden ==
    ( /\ last.op \in {"patchThought", "deleteThought"}
      /\ last.step = "find"
      /\ last.id \in DOMAIN thoughts
      /\ thoughts[last.id].user \notin {0, last.user} )
    => last.status = 403

\* No PATCH or DELETE of a thought is answered 200, or waits to write, for a
\* user other than the one the thought was created for.
NonOwnerNeverSucceeds ==
    /\ ( /\ last.op \in {"patchThought", "deleteThought"}
         /\ last.status = 200 )
       => (last.id \in DOMAIN createdBy /\ createdBy[last.id] \in {0, last.user})
    /\ \A r \in DOMAIN reqs :
          (r.kind \in {"patchThought", "deleteThought"} /\ r.pc # "find")
          => (r.id \in DOMAIN createdBy /\ createdBy[r.id] \in {0, ReqUserId(r)})

\* The step answering 403 leaves every thought as it was.
ForbiddenWritesNothing ==
    last'.status = 403 => thoughts' = thoughts

\* C2: PATCH and DELETE /thoughts/:id by an authenticated user who is not the
\* owner of the thought answer 403 while the thought exists, never succeed,
\* and leave the thought unchanged.
C2_NonOwnerForbidden ==
    /\ []NonOwnerForbidden
    /\ []NonOwnerNeverSucceeds
    /\ [][ForbiddenWritesNothing]_vars

\* A user has just been answered 403 on a thought of the other user, which is
\* still in the store.
C2_Witness ==
    /\ last.status = 403
    /\ last.id \in DOMAIN thoughts
    /\ thoughts[last.id].user \notin {0, last.user}
    /\ last.user \in DOMAIN users

\* C3: once the deletion of a user has been answered 200, no stored thought
\* refers to that user, whatever was interleaved with the two store steps of
\* the deletion.
C3_NoThoughtOfDeletedUser ==
    \A u \in deletedOK : \A t \in DOMAIN thoughts : thoughts[t].user # u

\* C9: PATCH answered 200 carries the updated thought (never null for a
\* thought that is gone), and each thought is reported as deleted by at most
\* one successful DELETE.
C9_MissingThoughtIs404 ==
    /\ (last.op = "patchThought" /\ last.status = 200) => last.doc # <<>>
    /\ \A t \in DOMAIN delReports : delReports[t] <= 1

\* The hearts of a thought are the default plus its successful likes.
HeartsCountLikes ==
    \A t \in DOMAIN thoughts : thoughts[t].hearts = DefaultHearts + likes[t]

\* Only a like answered 200 changes the hearts of a thought, and by one.
OnlyLikesChangeHearts ==
    \A t \in DOMAIN thoughts \cap DOMAIN thoughts' :
        thoughts'[t].hearts # thoughts[t].hearts =>
            /\ last'.op = "like" /\ last'.id = t /\ last'.status = 200
            /\ thoughts'[t].hearts = thoughts[t].hearts + 1

\* A like answered 200 adds one heart and returns the updated thought.
LikeIncrements ==
    (last'.op = "like" /\ last'.status = 200) =>
        /\ last'.id \in DOMAIN thoughts \cap DOMAIN thoughts'
        /\ thoughts'[last'.id].hearts = thoughts[last'.id].hearts + 1
        /\ last'.doc = <<thoughts'[last'.id]>>

\* C4: N successful likes of a thought add exactly N hearts, whatever likes
\* and PATCH requests are interleaved with them; nothing else changes hearts.
C4_LikesCounted ==
    /\ []HeartsCountLikes
    /\ [][OnlyLikesChangeHearts]_vars
    /\ [][LikeIncrements]_vars

\* The second like of a thought has just landed between the fetch and the
\* update of a PATCH of the same thought.
C4_Witness ==
    /\ last.op = "like" /\ last.status = 200
    /\ thoughts[last.id].hearts = 2
    /\ \E r \in DOMAIN reqs :
          r.kind = "patchThought" /\ r.pc = "update" /\ r.id = last.id

\* C7: every stored thought has hearts >= 0 and the user reference it was
\* created with, which is the _id of the user who created it.
C7_HeartsAndOwner ==
    /\ \A t \in DOMAIN thoughts :
          /\ thoughts[t].hearts >= 0
          /\ thoughts[t].user = createdBy[t]
    /\ (last.op = "postThought" /\ last.status = 201)
          => /\ createdBy[last.id] = last.user
             /\ last.doc[1].user = last.user
             /\ last.user \in UserIds

\* A thought that was liked and edited, whose owner has logged in again since
\* creating it.
C7_Witness ==
    \E t \in DOMAIN thoughts :
        /\ thoughts[t].hearts > 0
        /\ thoughts[t].message = <<"m","2">>
        /\ thoughts[t].user = createdBy[t]
        /\ Cardinality(TokensOf(thoughts[t].user)) > 1

\* The orders of the thoughts of a category by the sort the query asks for:
\* hearts descending for sort=hearts, createdAt descending otherwise.
RequestedOrders(category, sort) ==
    sortDescending(findThoughts(category),
                   IF sort = "hearts" THEN "hearts" ELSE "createdAt")

\* C5: GET /thoughts returns elements [(p-1)*l, p*l) of the thoughts matching
\* the filter in the requested order, and totalPages = ceil(filteredCount / l).
C5_Pagination ==
    listResp # <<>> =>
        LET q == listResp[1]
        IN  /\ q.totalPages = ceilDiv(Cardinality(findThoughts(q.category)), q.limit)
            /\ \E ord \in RequestedOrders(q.category, q.sort) :
                  q.results = skipLimit(ord, (q.page - 1) * q.limit, q.limit)

====
